---------------------------- MODULE Spec2Model ----------------------------
(***************************************************************************)
(* Contact-email submission workflow of the email_service_agent:           *)
(*   _is_valid_email, send_contact_email_tool, send_simple_email_to_user   *)
(* (src/multitool_agent/sub_agents/email_service_agent/agent.py).          *)
(*                                                                         *)
(* A Python str is modelled as a sequence of tokens; an input string is a  *)
(* sequence of one-character tokens, a literal of the source is one token. *)
(* String formatting (f-strings, +) is sequence concatenation.             *)
(***************************************************************************)
EXTENDS Integers, Sequences, FiniteSets, TLC

VARIABLES
    credential,  \* os.environ's value of RESEND_API_KEY (None when unset)
    pc,          \* per invocation: "idle", "posting" (blocked in requests.post), "returned"
    op,          \* per invocation: the tool called
    args,        \* per invocation: the arguments it was called with
    api_key,     \* per invocation: the local api_key read from the environment
    posts,       \* the transport's record of the POSTs it received, in order
    outcome,     \* per invocation: what requests.post did (a response or an exception)
    result,      \* per invocation: the mapping the tool returned
    candidate,   \* the argument addr of a call of _is_valid_email
    vpc,         \* "called" while that call runs, "returned" once it has returned
    verdict      \* what the call returned (FALSE until it returns)

toolVars == <<credential, pc, op, args, api_key, posts, outcome, result>>
validatorVars == <<candidate, vpc, verdict>>
vars == <<toolVars, validatorVars>>

(***************************************************************************)
(* Bounds of the model.                                                    *)
(***************************************************************************)
MaxLen == 4          \* longest candidate string given to the validator
MaxCalls == 2        \* invocations of the tools in one behaviour

(***************************************************************************)
(* Python values.                                                          *)
(***************************************************************************)
None == <<"<None>">>                 \* Python's None (no input string has this token)
EMPTYSTRING == <<>>
Falsy(v) == v = None \/ v = EMPTYSTRING      \* `not v` for an Optional[str]

\* str.join over a list of strings
RECURSIVE Join(_)
Join(parts) == IF parts = <<>> THEN <<>> ELSE Head(parts) \o Join(Tail(parts))

\* c in s, for a one-character c
Contains(s, c) == \E i \in 1..Len(s) : s[i] = c

\* all strings over alphabet of length at most n
StringsUpTo(alphabet, n) == UNION {[1..k -> alphabet] : k \in 0..n}

(***************************************************************************)
(* email.utils.parseaddr, as _is_valid_email uses it (line 31): the legacy *)
(* address parser AddrlistClass.  The caller discards the realname         *)
(* component (`_, email = parseaddr(addr)`), so only the address component *)
(* and the parser's position are computed; comments are skipped without    *)
(* being collected.  Positions are 0-based as in the source.               *)
(***************************************************************************)
specials == {"(", ")", "<", ">", "@", ",", ":", ";", ".", "\"", "[", "]"}
LWS == {" ", "\t"}
CR == {"\r", "\n"}
FWS == LWS \cup CR
atomends == specials \cup LWS \cup CR
phraseends == atomends \ {"."}
StripChars == {" ", "\t", "\r", "\n"}        \* what str.strip() removes

At(field, pos) == field[pos + 1]

\* `not s.strip()`
IsBlank(s) == \A i \in 1..Len(s) : s[i] \in StripChars

\* quote(str): backslash and double quote become quoted pairs
RECURSIVE quote(_)
quote(str) ==
    IF str = <<>> THEN <<>>
    ELSE IF Head(str) \in {"\\", "\""}
         THEN <<"\\", Head(str)>> \o quote(Tail(str))
         ELSE <<Head(str)>> \o quote(Tail(str))

RECURSIVE getdelimited_loop(_, _, _, _, _, _)
RECURSIVE getcomment(_, _)

\* getdelimited after a nested comment r: slist.append(self.getcomment()); continue
getdelimited_after_comment(field, endchars, allowcomments, slist, r) ==
    getdelimited_loop(field, r.pos, endchars, allowcomments, FALSE, slist \o r.val)

\* the while loop of getdelimited; slist is the joined fragment so far
getdelimited_loop(field, pos, endchars, allowcomments, inquote, slist) ==
    IF pos >= Len(field) THEN [pos |-> pos, val |-> slist]
    ELSE IF inquote
    THEN getdelimited_loop(field, pos + 1, endchars, allowcomments,
                           FALSE, Append(slist, At(field, pos)))
    ELSE IF At(field, pos) \in endchars THEN [pos |-> pos + 1, val |-> slist]
    ELSE IF allowcomments /\ At(field, pos) = "("
    THEN getdelimited_after_comment(field, endchars, allowcomments, slist,
                                    getcomment(field, pos))
    ELSE IF At(field, pos) = "\\"
    THEN getdelimited_loop(field, pos + 1, endchars, allowcomments, TRUE, slist)
    ELSE getdelimited_loop(field, pos + 1, endchars, allowcomments,
                           FALSE, Append(slist, At(field, pos)))

getdelimited(field, pos, beginchar, endchars, allowcomments) ==
    IF At(field, pos) # beginchar THEN [pos |-> pos, val |-> <<>>]
    ELSE getdelimited_loop(field, pos + 1, endchars, allowcomments, FALSE, <<>>)

getquote(field, pos) == getdelimited(field, pos, "\"", {"\"", "\r"}, FALSE)

getcomment(field, pos) == getdelimited(field, pos, "(", {")", "\r"}, TRUE)

\* '[%s]' % r
bracketed(r) == [pos |-> r.pos, val |-> <<"[">> \o r.val \o <<"]">>]

getdomainliteral(field, pos) ==
    bracketed(getdelimited(field, pos, "[", {"]", "\r"}, FALSE))

RECURSIVE getatom_loop(_, _, _, _)
getatom_loop(field, pos, ends, atomlist) ==
    IF pos >= Len(field) \/ At(field, pos) \in ends
    THEN [pos |-> pos, val |-> atomlist]
    ELSE getatom_loop(field, pos + 1, ends, Append(atomlist, At(field, pos)))

getatom(field, pos, ends) == getatom_loop(field, pos, ends, <<>>)

\* gotonext: skip white space and comments; val is the white space kept
RECURSIVE gotonext_loop(_, _, _)
gotonext_loop(field, pos, wslist) ==
    IF pos >= Len(field) THEN [pos |-> pos, val |-> wslist]
    ELSE IF At(field, pos) \in LWS \cup {"\n", "\r"}
    THEN gotonext_loop(field, pos + 1,
                       IF At(field, pos) \notin {"\n", "\r"}
                       THEN Append(wslist, At(field, pos)) ELSE wslist)
    ELSE IF At(field, pos) = "("
    THEN gotonext_loop(field, getcomment(field, pos).pos, wslist)
    ELSE [pos |-> pos, val |-> wslist]

gotonext(field, pos) == gotonext_loop(field, pos, <<>>)

\* getphraselist: val is the list of phrases
RECURSIVE getphraselist_loop(_, _, _)

\* plist.append(r), r a quoted string or an atom
getphraselist_append(field, plist, r) ==
    getphraselist_loop(field, r.pos, Append(plist, r.val))

getphraselist_loop(field, pos, plist) ==
    IF pos >= Len(field) THEN [pos |-> pos, val |-> plist]
    ELSE IF At(field, pos) \in FWS THEN getphraselist_loop(field, pos + 1, plist)
    ELSE IF At(field, pos) = "\""
    THEN getphraselist_append(field, plist, getquote(field, pos))
    ELSE IF At(field, pos) = "("
    THEN getphraselist_loop(field, getcomment(field, pos).pos, plist)
    ELSE IF At(field, pos) \in phraseends THEN [pos |-> pos, val |-> plist]
    ELSE getphraselist_append(field, plist, getatom(field, pos, phraseends))

getphraselist(field, pos) == getphraselist_loop(field, pos, <<>>)

\* getdomain; a second "@" makes the domain empty (bpo-34155)
RECURSIVE getdomain_loop(_, _, _)

\* sdlist.append(r), r a domain literal or an atom
getdomain_append(field, sdlist, r) == getdomain_loop(field, r.pos, sdlist \o r.val)

getdomain_loop(field, pos, sdlist) ==
    IF pos >= Len(field) THEN [pos |-> pos, val |-> sdlist]
    ELSE IF At(field, pos) \in LWS THEN getdomain_loop(field, pos + 1, sdlist)
    ELSE IF At(field, pos) = "("
    THEN getdomain_loop(field, getcomment(field, pos).pos, sdlist)
    ELSE IF At(field, pos) = "["
    THEN getdomain_append(field, sdlist, getdomainliteral(field, pos))
    ELSE IF At(field, pos) = "." THEN getdomain_loop(field, pos + 1, Append(sdlist, "."))
    ELSE IF At(field, pos) = "@" THEN [pos |-> pos, val |-> EMPTYSTRING]
    ELSE IF At(field, pos) \in atomends THEN [pos |-> pos, val |-> sdlist]
    ELSE getdomain_append(field, sdlist, getatom(field, pos, atomends))

getdomain(field, pos) == getdomain_loop(field, pos, <<>>)

\* if aslist and not aslist[-1].strip(): aslist.pop()
PopBlank(aslist) ==
    IF aslist # <<>> /\ IsBlank(aslist[Len(aslist)])
    THEN SubSeq(aslist, 1, Len(aslist) - 1)
    ELSE aslist

\* the while loop of getaddrspec; aslist is the list of pieces of the local part
RECURSIVE getaddrspec_loop(_, _, _)

\* aslist.append(piece); ws = self.gotonext(); if preserve_ws and ws: aslist.append(ws)
getaddrspec_append(field, aslist, piece, ws) ==
    getaddrspec_loop(field, ws.pos,
        IF ws.val # <<>> THEN aslist \o <<piece, ws.val>> ELSE Append(aslist, piece))

\* aslist.append('"%s"' % quote(self.getquote()))
getaddrspec_quoted(field, aslist, q) ==
    getaddrspec_append(field, aslist, <<"\"">> \o quote(q.val) \o <<"\"">>,
                       gotonext(field, q.pos))

\* aslist.append(self.getatom())
getaddrspec_atom(field, aslist, a) ==
    getaddrspec_append(field, aslist, a.val, gotonext(field, a.pos))

getaddrspec_loop(field, pos, aslist) ==
    IF pos >= Len(field) THEN [pos |-> pos, val |-> aslist]
    ELSE IF At(field, pos) = "."
    THEN getaddrspec_loop(field, gotonext(field, pos + 1).pos,
                          Append(PopBlank(aslist), <<".">>))
    ELSE IF At(field, pos) = "\""
    THEN getaddrspec_quoted(field, aslist, getquote(field, pos))
    ELSE IF At(field, pos) \in atomends THEN [pos |-> pos, val |-> PopBlank(aslist)]
    ELSE getaddrspec_atom(field, aslist, getatom(field, pos, atomends))

\* the end of getaddrspec: local part loc.val, then the domain parsed
getaddrspec_join(loc, domain) ==
    IF domain.val = EMPTYSTRING
    THEN [pos |-> domain.pos, val |-> EMPTYSTRING]
    ELSE [pos |-> domain.pos, val |-> Join(Append(loc.val, <<"@">>)) \o domain.val]

\* getaddrspec after its while loop, which ended at loc.pos
getaddrspec_domain(field, loc) ==
    IF loc.pos >= Len(field) \/ At(field, loc.pos) # "@"
    THEN [pos |-> loc.pos, val |-> Join(loc.val)]
    ELSE getaddrspec_join(loc, getdomain(field, gotonext(field, loc.pos + 1).pos))

getaddrspec(field, pos) ==
    getaddrspec_domain(field, getaddrspec_loop(field, gotonext(field, pos).pos, <<>>))

\* adlist = self.getaddrspec(); self.pos += 1; break
getrouteaddr_addrspec(a) == [pos |-> a.pos + 1, val |-> a.val]

\* the while loop of getrouteaddr
RECURSIVE getrouteaddr_loop(_, _, _)
getrouteaddr_loop(field, pos, expectroute) ==
    IF pos >= Len(field) THEN [pos |-> pos, val |-> EMPTYSTRING]
    ELSE IF expectroute
    THEN getrouteaddr_loop(field, gotonext(field, getdomain(field, pos).pos).pos, FALSE)
    ELSE IF At(field, pos) = ">" THEN [pos |-> pos + 1, val |-> EMPTYSTRING]
    ELSE IF At(field, pos) = "@"
    THEN getrouteaddr_loop(field, gotonext(field, pos + 1).pos, TRUE)
    ELSE IF At(field, pos) = ":"
    THEN getrouteaddr_loop(field, gotonext(field, pos + 1).pos, FALSE)
    ELSE getrouteaddr_addrspec(getaddrspec(field, pos))

getrouteaddr(field, pos) ==
    IF At(field, pos) # "<" THEN [pos |-> pos, val |-> EMPTYSTRING]
    ELSE getrouteaddr_loop(field, gotonext(field, pos + 1).pos, FALSE)

RECURSIVE getaddress(_, _)
RECURSIVE getaddress_group(_, _, _)

\* returnlist = returnlist + self.getaddress()
getaddress_group_add(field, returnlist, a) ==
    getaddress_group(field, a.pos, returnlist \o a.val)

\* one round of the group loop, white space skipped up to position n
getaddress_group_at(field, returnlist, n) ==
    IF n < Len(field) /\ At(field, n) = ";"
    THEN [pos |-> n + 1, val |-> returnlist]
    ELSE getaddress_group_add(field, returnlist, getaddress(field, n))

\* the while loop of getaddress for a group ("phrase: address, ... ;")
getaddress_group(field, pos, returnlist) ==
    IF pos >= Len(field) THEN [pos |-> pos, val |-> returnlist]
    ELSE getaddress_group_at(field, returnlist, gotonext(field, pos).pos)

\* returnlist = [(..., a)] for an addrspec or a route address a
getaddress_single(a) == [pos |-> a.pos, val |-> <<a.val>>]

\* the end of getaddress: an optional "," at q closes the address
getaddress_comma(field, returnlist, q) ==
    IF q < Len(field) /\ At(field, q) = ","
    THEN [pos |-> q + 1, val |-> returnlist]
    ELSE [pos |-> q, val |-> returnlist]

getaddress_end(field, r) == getaddress_comma(field, r.val, gotonext(field, r.pos).pos)

\* the branches of getaddress: phrases plist read from oldpos, next token at p
getaddress_branch(field, oldpos, plist, p) ==
    IF p >= Len(field)
    THEN [pos |-> p, val |-> IF plist # <<>> THEN <<plist[1]>> ELSE <<>>]
    ELSE IF At(field, p) \in {".", "@"}
    THEN getaddress_single(getaddrspec(field, oldpos))
    ELSE IF At(field, p) = ":" THEN getaddress_group(field, p + 1, <<>>)
    ELSE IF At(field, p) = "<" THEN getaddress_single(getrouteaddr(field, p))
    ELSE IF plist # <<>> THEN [pos |-> p, val |-> <<plist[1]>>]
    ELSE IF At(field, p) \in specials THEN [pos |-> p + 1, val |-> <<>>]
    ELSE [pos |-> p, val |-> <<>>]

getaddress_phrases(field, oldpos, pl) ==
    getaddress_end(field,
        getaddress_branch(field, oldpos, pl.val, gotonext(field, pl.pos).pos))

getaddress_from(field, oldpos) ==
    getaddress_phrases(field, oldpos, getphraselist(field, oldpos))

\* getaddress: val is the list of the addresses parsed (address components)
getaddress(field, pos) == getaddress_from(field, gotonext(field, pos).pos)

\* getaddrlist: every address of the field; a failed parse contributes ''
RECURSIVE getaddrlist_loop(_, _, _)

\* if ad: result += ad  else: result.append(('', ''))
getaddrlist_add(field, addrs, ad) ==
    getaddrlist_loop(field, ad.pos,
        IF ad.val # <<>> THEN addrs \o ad.val ELSE Append(addrs, EMPTYSTRING))

getaddrlist_loop(field, pos, addrs) ==
    IF pos >= Len(field) THEN addrs
    ELSE getaddrlist_add(field, addrs, getaddress(field, pos))

getaddrlist(field) == getaddrlist_loop(field, 0, <<>>)

\* if not addrs: return '', ''   return addrs[0]
first_address(addrs) == IF addrs = <<>> THEN EMPTYSTRING ELSE addrs[1]

\* parseaddr(addr)[1]: the address component of the first address, '' if none
parseaddr(addr) ==
    first_address(IF addr # EMPTYSTRING THEN getaddrlist(addr) ELSE <<>>)

(***************************************************************************)
(* _is_valid_email (lines 27-32).                                          *)
(***************************************************************************)
\* a check that forgets the "@"
has_at_nonempty(email) == email # EMPTYSTRING

\* a stricter check that also wants a dot after the "@"
has_at_and_dot(email) ==
    /\ email # EMPTYSTRING
    /\ \E i \in 1..Len(email), j \in 1..Len(email) :
           i < j /\ email[i] = "@" /\ email[j] = "."

\* bool(email and "@" in email)
has_at(email) == email # EMPTYSTRING /\ Contains(email, "@")

_is_valid_email(addr) == IF Falsy(addr) THEN FALSE ELSE has_at(parseaddr(addr))

(***************************************************************************)
(* Config / constants (lines 17-22, 121-124).                              *)
(***************************************************************************)
DESTINATION_EMAIL == <<"vadegharudayraj@gmail.com">>
DEFAULT_FROM == <<"Website Contact Form <onboarding@resend.dev>">>
RESEND_URL == <<"https://api.resend.com/emails">>
API_KEY_ENV == <<"RESEND_API_KEY">>
SENDER_NAME == <<"Uday Raj">>
SEND_MAIL_FROM_ME_TO_USER_TOOL == <<"noreply@uday.lol">>
RESUME_URL == <<"https://drive.google.com/drive/my-drive?q=type:folder%20parent:0AGwf6vqT_0ElUk9PVA">>
LINKEDIN_URL == <<"https://www.linkedin.com/in/uday-raj-vadeghar/">>
GITHUB_URL == <<"https://github.com/UdayRajVadeghar">>
CONTACT_EMAIL == <<"udayraj.vadeghar@gmail.com">>

(***************************************************************************)
(* The transport (requests.post) and what it can answer.                   *)
(***************************************************************************)
Calls == 1..MaxCalls

\* the answers of the provider the model draws from: status code and kind of body
ResponseCases ==
    {<<199, "unparseable">>, <<200, "structured">>, <<200, "unparseable">>,
     <<202, "structured">>, <<299, "structured">>, <<300, "unparseable">>,
     <<500, "structured">>, <<500, "unparseable">>}

\* a requests.Response: json is what resp.json() does, a value or a ValueError
Response(status_code, kind) ==
    IF kind = "structured"
    THEN [status_code |-> status_code,
          text |-> <<"{\"id\": \"abc\"}">>,
          json |-> [raises |-> FALSE, value |-> [id |-> <<"abc">>]]]
    ELSE [status_code |-> status_code,
          text |-> <<"Bad Gateway">>,
          json |-> [raises |-> TRUE]]

\* str(e) of the exceptions requests.post raises
Exceptions == {<<"Connection refused">>, <<"Read timed out. (read timeout=15)">>}

\* headers of both requests (lines 88-91, 244-247)
Headers(key) ==
    [Authorization |-> <<"Bearer ">> \o key,
     ContentType |-> <<"application/json">>]

\* requests.post(RESEND_URL, headers=headers, json=payload, timeout=15)
PostRequest(key, payload) ==
    [url |-> RESEND_URL, headers |-> Headers(key), json |-> payload, timeout |-> 15]

\* a POST that ignores a request the transport has already seen
PostDeduplicated(c, request) ==
    IF \E i \in 1..Len(posts) : posts[i].request = request
    THEN posts
    ELSE Append(posts, [call |-> c, request |-> request])

\* a transport record kept in one shared slot that each POST overwrites
PostShared(c, request) == <<[call |-> c, request |-> request]>>

\* the transport's record after invocation c issues request (lines 94, 249)
Post(c, request) == Append(posts, [call |-> c, request |-> request])

\* an unparseable body dropped instead of kept as raw text
ResponseDataParsedOnly(resp) == IF resp.json.raises THEN EMPTYSTRING ELSE resp.json.value

\* try: data = resp.json()  except ValueError: data = resp.text
ResponseData(resp) == IF resp.json.raises THEN resp.text ELSE resp.json.value

\* an except clause that drops the failure description
ExceptionResultGeneric(e) == [status |-> "error", message |-> <<"Exception">>]

\* except Exception as e: return {"status": "error", "message": f"Exception: {e}"}
ExceptionResult(e) == [status |-> "error", message |-> <<"Exception: ">> \o e]

\* if not api_key: return {"status": "error", "message": f"Missing {API_KEY_ENV}"}
MissingKeyResult == [status |-> "error", message |-> <<"Missing ">> \o API_KEY_ENV]

\* a non-2xx result whose status is outside success / error / warning
NonSuccessResultFailed(resp) ==
    [status |-> "failed",
     message |-> <<"resend returned non-success">>,
     status_code |-> resp.status_code,
     response |-> ResponseData(resp)]

\* the non-2xx branch of both tools (lines 108-115, 262-269)
NonSuccessResult(resp) ==
    [status |-> "error",
     message |-> <<"resend returned non-success">>,
     status_code |-> resp.status_code,
     response |-> ResponseData(resp)]

\* the success range with its upper end off by one
IsSuccessStatusInclusive(status_code) == 200 <= status_code /\ status_code <= 300

\* 200 <= resp.status_code < 300
IsSuccessStatus(status_code) == 200 <= status_code /\ status_code < 300

(***************************************************************************)
(* send_contact_email_tool (lines 35-119).                                 *)
(***************************************************************************)
\* body.replace(chr(10), '<br/>')
RECURSIVE replace_newlines(_)
replace_newlines(body) ==
    IF body = <<>> THEN <<>>
    ELSE (IF Head(body) = "\n" THEN <<"<br/>">> ELSE <<Head(body)>>)
         \o replace_newlines(Tail(body))

contact_html_body(name, email, phone, body) ==
    <<"<h2>Contact form submission</h2>">>
    \o <<"<p><strong>Name:</strong> ">> \o name \o <<"</p>">>
    \o <<"<p><strong>Email:</strong> ">> \o email \o <<"</p>">>
    \o (IF ~Falsy(phone)
        THEN <<"<p><strong>Phone:</strong> ">> \o phone \o <<"</p>">>
        ELSE <<>>)
    \o <<"<hr/>">>
    \o <<"<div>">>
    \o <<"<p><strong>Message:</strong></p>">>
    \o <<"<div>">> \o replace_newlines(body) \o <<"</div>">>
    \o <<"</div>">>

contact_payload(a) ==
    [from |-> DEFAULT_FROM,
     to |-> <<DESTINATION_EMAIL>>,
     subject |-> a.subject,
     html |-> contact_html_body(a.name, a.email, a.phone, a.body)]

\* a required-fields error that lists only the fields that are missing
RequiredFieldsResultListing(a) ==
    [status |-> "error",
     message |-> (IF Falsy(a.name) THEN <<"name">> ELSE <<>>)
                 \o (IF Falsy(a.subject) THEN <<"subject">> ELSE <<>>)
                 \o (IF Falsy(a.body) THEN <<"body">> ELSE <<>>)
                 \o <<" required">>,
     query |-> [name |-> a.name, subject |-> a.subject]]

\* return {"status": "error", "message": "name, subject and body are required", ...}
RequiredFieldsResult(a) ==
    [status |-> "error",
     message |-> <<"name, subject and body are required">>,
     query |-> [name |-> a.name, subject |-> a.subject]]

InvalidSenderResult(a) ==
    [status |-> "error", message |-> <<"invalid sender email">>, email |-> a.email]

\* the checks with the sender address validated before the required fields
contact_precheck_email_first(key, a) ==
    IF Falsy(key) THEN "missing_key"
    ELSE IF ~_is_valid_email(a.email) THEN "invalid_email"
    ELSE IF Falsy(a.name) \/ Falsy(a.subject) \/ Falsy(a.body) THEN "required"
    ELSE "post"

\* the checks with the sender address not validated
contact_precheck_no_email_check(key, a) ==
    IF Falsy(key) THEN "missing_key"
    ELSE IF Falsy(a.name) \/ Falsy(a.subject) \/ Falsy(a.body) THEN "required"
    ELSE "post"

\* which of the checks of lines 59-66 returns first ("post": none of them)
contact_precheck(key, a) ==
    IF Falsy(key) THEN "missing_key"
    ELSE IF Falsy(a.name) \/ Falsy(a.subject) \/ Falsy(a.body) THEN "required"
    ELSE IF ~_is_valid_email(a.email) THEN "invalid_email"
    ELSE "post"

contact_early_result(key, a) ==
    CASE contact_precheck(key, a) = "missing_key" -> MissingKeyResult
      [] contact_precheck(key, a) = "required" -> RequiredFieldsResult(a)
      [] contact_precheck(key, a) = "invalid_email" -> InvalidSenderResult(a)

\* a success result that also carries the status code
contact_response_result_with_code(resp) ==
    IF IsSuccessStatus(resp.status_code)
    THEN [status |-> "success",
          message |-> <<"Email sent to Uday Raj">>,
          status_code |-> resp.status_code,
          response |-> ResponseData(resp),
          results_count |-> 1]
    ELSE NonSuccessResult(resp)

\* lines 101-115
contact_response_result(resp) ==
    IF IsSuccessStatus(resp.status_code)
    THEN [status |-> "success",
          message |-> <<"Email sent to Uday Raj">>,
          response |-> ResponseData(resp),
          results_count |-> 1]
    ELSE NonSuccessResult(resp)

ContactArgs ==
    [name : {EMPTYSTRING, <<"P", "a", "r", "i">>},
     subject : {EMPTYSTRING, <<"H", "i">>},
     email : {<<"b", "a", "d">>,
              <<"p", "@", "e", "x", ".", "c", "o">>},
     body : {EMPTYSTRING, <<"H", "e", "l", "l", "o", "\n", "U", "d", "a", "y">>},
     phone : {None, <<"9", "8">>}]

\* the call up to requests.post (lines 57-94): an early return, or the POST is issued
send_contact_email_tool(c, a) ==
    /\ pc[c] = "idle"
    /\ op' = [op EXCEPT ![c] = "send_contact_email_tool"]
    /\ args' = [args EXCEPT ![c] = a]
    /\ api_key' = [api_key EXCEPT ![c] = credential]
    /\ IF contact_precheck(credential, a) = "post"
       THEN /\ posts' = Post(c, PostRequest(credential, contact_payload(a)))
            /\ pc' = [pc EXCEPT ![c] = "posting"]
            /\ UNCHANGED result
       ELSE /\ result' = [result EXCEPT ![c] = contact_early_result(credential, a)]
            /\ pc' = [pc EXCEPT ![c] = "returned"]
            /\ UNCHANGED posts
    /\ UNCHANGED <<credential, outcome, validatorVars>>

\* requests.post returns resp; lines 96-115 classify it
send_contact_email_tool_response(c, resp) ==
    /\ pc[c] = "posting"
    /\ op[c] = "send_contact_email_tool"
    /\ outcome' = [outcome EXCEPT ![c] = [kind |-> "response", resp |-> resp]]
    /\ result' = [result EXCEPT ![c] = contact_response_result(resp)]
    /\ pc' = [pc EXCEPT ![c] = "returned"]
    /\ UNCHANGED <<credential, op, args, api_key, posts, validatorVars>>

\* requests.post raises e; lines 117-119 return it as data
send_contact_email_tool_except(c, e) ==
    /\ pc[c] = "posting"
    /\ op[c] = "send_contact_email_tool"
    /\ outcome' = [outcome EXCEPT ![c] = [kind |-> "exception", e |-> e]]
    /\ result' = [result EXCEPT ![c] = ExceptionResult(e)]
    /\ pc' = [pc EXCEPT ![c] = "returned"]
    /\ UNCHANGED <<credential, op, args, api_key, posts, validatorVars>>

(***************************************************************************)
(* send_simple_email_to_user (lines 127-273).                              *)
(***************************************************************************)
simple_subject == <<"Hey there, thanks for connecting!">>

simple_text_body ==
    <<"Hello,\n\n">>
    \o <<"I'm ">> \o SENDER_NAME \o <<". Thank you for connecting. ...\n\n">>
    \o <<"My resume: ">> \o RESUME_URL \o <<"\n">>
    \o <<"Email: ">> \o CONTACT_EMAIL \o <<"\n">>
    \o <<"LinkedIn: ">> \o LINKEDIN_URL \o <<"\n">>
    \o <<"GitHub: ">> \o GITHUB_URL \o <<"\n\n">>
    \o <<"Best regards,\n">> \o SENDER_NAME

\* the HTML card of lines 154-234: static markup around the same constants
simple_html_body ==
    <<"<table ...><h1>">> \o SENDER_NAME \o <<"</h1> ... <strong>">> \o SENDER_NAME
    \o <<"</strong> ... <a href=\"">> \o RESUME_URL
    \o <<"\"> ... <a href=\"mailto:">> \o CONTACT_EMAIL \o <<"\">">> \o CONTACT_EMAIL
    \o <<"</a> ... <a href=\"">> \o LINKEDIN_URL \o <<"\"> ... <a href=\"">> \o GITHUB_URL
    \o <<"\"> ... <strong>">> \o SENDER_NAME \o <<"</strong> ... <strong>">> \o SENDER_NAME
    \o <<"</strong> ... <a href=\"mailto:">> \o CONTACT_EMAIL \o <<"\">">> \o CONTACT_EMAIL
    \o <<"</a> ... </table>">>

\* a payload addressed to the operator instead of the recipient
simple_payload_to_operator(recipient_email) ==
    [from |-> SEND_MAIL_FROM_ME_TO_USER_TOOL,
     to |-> <<DESTINATION_EMAIL>>,
     subject |-> simple_subject,
     text |-> simple_text_body,
     html |-> simple_html_body]

\* lines 236-242
simple_payload(recipient_email) ==
    [from |-> SEND_MAIL_FROM_ME_TO_USER_TOOL,
     to |-> <<recipient_email>>,
     subject |-> simple_subject,
     text |-> simple_text_body,
     html |-> simple_html_body]

InvalidRecipientResult(recipient_email) ==
    [status |-> "error", message |-> <<"invalid recipient email">>, email |-> recipient_email]

\* which of the checks of lines 137-141 returns first ("post": none of them)
simple_precheck(key, recipient_email) ==
    IF Falsy(key) THEN "missing_key"
    ELSE IF ~_is_valid_email(recipient_email) THEN "invalid_email"
    ELSE "post"

simple_early_result(key, recipient_email) ==
    CASE simple_precheck(key, recipient_email) = "missing_key" -> MissingKeyResult
      [] simple_precheck(key, recipient_email) = "invalid_email" ->
             InvalidRecipientResult(recipient_email)

simple_response_result(resp, recipient_email) ==
    IF IsSuccessStatus(resp.status_code)
    THEN [status |-> "success",
          message |-> <<"Email queued/sent from ">> \o SENDER_NAME \o <<" to ">>
                      \o recipient_email,
          response |-> ResponseData(resp)]
    ELSE NonSuccessResult(resp)

SimpleArgs ==
    [recipient_email : {EMPTYSTRING, <<"b", "a", "d">>,
                        <<"u", "@", "e", "x", ".", "c", "o">>}]

\* the call up to requests.post (lines 135-249)
send_simple_email_to_user(c, a) ==
    /\ pc[c] = "idle"
    /\ op' = [op EXCEPT ![c] = "send_simple_email_to_user"]
    /\ args' = [args EXCEPT ![c] = a]
    /\ api_key' = [api_key EXCEPT ![c] = credential]
    /\ IF simple_precheck(credential, a.recipient_email) = "post"
       THEN /\ posts' = Post(c, PostRequest(credential, simple_payload(a.recipient_email)))
            /\ pc' = [pc EXCEPT ![c] = "posting"]
            /\ UNCHANGED result
       ELSE /\ result' = [result EXCEPT ![c] =
                             simple_early_result(credential, a.recipient_email)]
            /\ pc' = [pc EXCEPT ![c] = "returned"]
            /\ UNCHANGED posts
    /\ UNCHANGED <<credential, outcome, validatorVars>>

\* requests.post returns resp; lines 251-269 classify it
send_simple_email_to_user_response(c, resp) ==
    /\ pc[c] = "posting"
    /\ op[c] = "send_simple_email_to_user"
    /\ outcome' = [outcome EXCEPT ![c] = [kind |-> "response", resp |-> resp]]
    /\ result' = [result EXCEPT ![c] =
                     simple_response_result(resp, args[c].recipient_email)]
    /\ pc' = [pc EXCEPT ![c] = "returned"]
    /\ UNCHANGED <<credential, op, args, api_key, posts, validatorVars>>

\* requests.post raises e; lines 271-273 return it as data
send_simple_email_to_user_except(c, e) ==
    /\ pc[c] = "posting"
    /\ op[c] = "send_simple_email_to_user"
    /\ outcome' = [outcome EXCEPT ![c] = [kind |-> "exception", e |-> e]]
    /\ result' = [result EXCEPT ![c] = ExceptionResult(e)]
    /\ pc' = [pc EXCEPT ![c] = "returned"]
    /\ UNCHANGED <<credential, op, args, api_key, posts, validatorVars>>

(***************************************************************************)
(* The tools under any interleaving of MaxCalls invocations.  The          *)
(* credential is whatever the process environment holds: unset, empty or   *)
(* a key; the tools never write it.                                        *)
(***************************************************************************)
Credentials == {None, EMPTYSTRING, <<"re_123">>}

NoCall == [none |-> TRUE]

ValidatorIdle ==
    /\ candidate = EMPTYSTRING
    /\ vpc = "returned"
    /\ verdict = FALSE

ToolsIdle ==
    /\ pc = [c \in Calls |-> "idle"]
    /\ op = [c \in Calls |-> "none"]
    /\ args = [c \in Calls |-> NoCall]
    /\ api_key = [c \in Calls |-> None]
    /\ posts = <<>>
    /\ outcome = [c \in Calls |-> [kind |-> "none"]]
    /\ result = [c \in Calls |-> NoCall]

Init ==
    /\ credential \in Credentials
    /\ ToolsIdle
    /\ ValidatorIdle

Next ==
    \/ \E c \in Calls, a \in ContactArgs : send_contact_email_tool(c, a)
    \/ \E c \in Calls, r \in ResponseCases :
           send_contact_email_tool_response(c, Response(r[1], r[2]))
    \/ \E c \in Calls, e \in Exceptions : send_contact_email_tool_except(c, e)
    \/ \E c \in Calls, a \in SimpleArgs : send_simple_email_to_user(c, a)
    \/ \E c \in Calls, r \in ResponseCases :
           send_simple_email_to_user_response(c, Response(r[1], r[2]))
    \/ \E c \in Calls, e \in Exceptions : send_simple_email_to_user_except(c, e)

Spec == Init /\ [][Next]_vars

(***************************************************************************)
(* The validator on its own: one call of _is_valid_email on any candidate. *)
(***************************************************************************)
ValidatorChars ==
    {"a", "@", ".", " ", "<", ">", "(", ")", ",", "\"", ":", ";", "[", "]", "\\"}

ValidatorInit ==
    /\ candidate \in StringsUpTo(ValidatorChars, MaxLen)
    /\ vpc = "called"
    /\ verdict = FALSE
    /\ credential = None
    /\ ToolsIdle

Validate ==
    /\ vpc = "called"
    /\ verdict' = _is_valid_email(candidate)
    /\ vpc' = "returned"
    /\ UNCHANGED <<candidate, toolVars>>

ValidatorNext == Validate

ValidatorSpec == ValidatorInit /\ [][ValidatorNext]_vars

(***************************************************************************)
(* The outcomes of the specification (EmailDispatchResult.outcome), read   *)
(* off the mapping a tool returns.                                         *)
(***************************************************************************)
IsContact(c) == op[c] = "send_contact_email_tool"
IsSimple(c) == op[c] = "send_simple_email_to_user"
Returned(c) == pc[c] = "returned"

\* s occurs in msg as a contiguous run of tokens
Includes(msg, s) ==
    \E i \in 1..(Len(msg) - Len(s) + 1) : SubSeq(msg, i, i + Len(s) - 1) = s

IsSuccess(r) == r.status = "success"
IsConfigurationError(r) ==
    /\ r.status = "error"
    /\ r.message[1] = "Missing "
    /\ Includes(r.message, API_KEY_ENV)
IsRequiredFieldsError(r) ==
    r.status = "error" /\ r.message = <<"name, subject and body are required">>
IsInvalidAddressError(r) ==
    r.status = "error"
    /\ r.message \in {<<"invalid sender email">>, <<"invalid recipient email">>}
IsValidationError(r) == IsRequiredFieldsError(r) \/ IsInvalidAddressError(r)
IsStatusError(r) == r.status = "error" /\ r.message = <<"resend returned non-success">>
IsExceptionError(r) == r.status = "error" /\ r.message[1] = "Exception: "
IsTransportError(r) == IsStatusError(r) \/ IsExceptionError(r)

\* the required text fields of a contact submission that are empty
MissingFields(a) ==
    {f \in {"name", "subject", "body"} :
        \/ f = "name" /\ a.name = EMPTYSTRING
        \/ f = "subject" /\ a.subject = EMPTYSTRING
        \/ f = "body" /\ a.body = EMPTYSTRING}

\* the addresses the invocations are given, and those _is_valid_email accepts
EmailInputs ==
    {a.email : a \in ContactArgs} \cup {a.recipient_email : a \in SimpleArgs}
AcceptedInputs == {e \in EmailInputs : _is_valid_email(e)}
Accepted(e) == e \in AcceptedInputs

CredentialPresent == credential # None /\ credential # EMPTYSTRING

\* some precondition of the operation invocation c runs fails
PreconditionFails(c) ==
    \/ ~CredentialPresent
    \/ IsContact(c) /\ MissingFields(args[c]) # {}
    \/ IsContact(c) /\ ~Accepted(args[c].email)
    \/ IsSimple(c) /\ ~Accepted(args[c].recipient_email)

\* the POSTs the transport recorded for invocation c
PostsOf(c) == {i \in 1..Len(posts) : posts[i].call = c}

(***************************************************************************)
(* Claims about the two tools (specification Spec).                        *)
(***************************************************************************)

\* C1: send_contact_email_tool checks credential, then name/subject/body, then
\* the sender address, and returns on the first failure: without a credential
\* the result is the ConfigurationError naming the credential whatever the other
\* inputs are; with a credential and an empty required field it is the
\* required-fields ValidationError even when the sender address is invalid too.
C1_PreconditionOrder ==
    \A c \in Calls :
        (Returned(c) /\ IsContact(c)) =>
            /\ ~CredentialPresent => IsConfigurationError(result[c])
            /\ (CredentialPresent /\ MissingFields(args[c]) # {}) =>
                   IsRequiredFieldsError(result[c])
            /\ (CredentialPresent /\ MissingFields(args[c]) = {}
                    /\ ~Accepted(args[c].email)) =>
                   IsInvalidAddressError(result[c])

C1_Witness ==
    \E c \in Calls :
        /\ Returned(c) /\ IsContact(c) /\ CredentialPresent
        /\ args[c].subject = EMPTYSTRING
        /\ ~Accepted(args[c].email)
        /\ IsRequiredFieldsError(result[c])

\* C2: whenever a precondition of send_contact_email_tool fails, the invocation
\* returns an error result and the transport records no request from it.
C2_NoRequestOnFailedPrecondition ==
    \A c \in Calls :
        (pc[c] # "idle" /\ IsContact(c) /\ PreconditionFails(c)) =>
            /\ Returned(c)
            /\ result[c].status = "error"
            /\ outcome[c].kind = "none"
            /\ PostsOf(c) = {}

C2_Witness ==
    \E c \in Calls :
        /\ Returned(c) /\ IsContact(c) /\ CredentialPresent
        /\ MissingFields(args[c]) = {}
        /\ ~Accepted(args[c].email)
        /\ result[c].status = "error"
        /\ posts = <<>>

C4_ClassificationByStatus ==
    \A c \in Calls :
        (Returned(c) /\ outcome[c].kind = "response") =>
            LET resp == outcome[c].resp IN
            /\ IsSuccess(result[c]) <=>
                   (200 <= resp.status_code /\ resp.status_code <= 299)
            /\ ~(200 <= resp.status_code /\ resp.status_code <= 299) =>
                   /\ IsStatusError(result[c])
                   /\ result[c].status_code = resp.status_code
                   /\ IF resp.json.raises
                      THEN result[c].response = resp.text
                      ELSE result[c].response = resp.json.value

C4_Witness ==
    \E c \in Calls, d \in Calls :
        /\ Returned(c) /\ IsContact(c) /\ outcome[c].kind = "response"
        /\ outcome[c].resp.status_code = 500
        /\ IsTransportError(result[c]) /\ result[c].status_code = 500
        /\ Returned(d) /\ IsSimple(d) /\ outcome[d].kind = "response"
        /\ outcome[d].resp.status_code = 299
        /\ IsSuccess(result[d])

\* C5 as claimed: the Success result of send_contact_email_tool carries the
\* response's status code.
C5_SuccessCarriesStatusCode ==
    \A c \in Calls :
        (Returned(c) /\ IsContact(c) /\ outcome[c].kind = "response"
            /\ IsSuccess(result[c])) =>
            /\ "status_code" \in DOMAIN result[c]
            /\ result[c].status_code = outcome[c].resp.status_code

\* C5: when the transport returns a status in 200..299, the Success result of
\* send_contact_email_tool carries the provider response and results_count 1
\* and no status code; only the non-success result carries status_code.
C5_SuccessCarriesNoStatusCode ==
    \A c \in Calls :
        (Returned(c) /\ IsContact(c) /\ outcome[c].kind = "response"
            /\ 200 <= outcome[c].resp.status_code
            /\ outcome[c].resp.status_code <= 299) =>
            /\ DOMAIN result[c] = {"status", "message", "response", "results_count"}
            /\ IsSuccess(result[c])
            /\ result[c].results_count = 1
            /\ IF outcome[c].resp.json.raises
               THEN result[c].response = outcome[c].resp.text
               ELSE result[c].response = outcome[c].resp.json.value

C5_Witness ==
    \E c \in Calls :
        /\ Returned(c) /\ IsContact(c) /\ outcome[c].kind = "response"
        /\ outcome[c].resp.status_code = 200
        /\ IsSuccess(result[c])
        /\ "status_code" \notin DOMAIN result[c]

\* C6: for both tools, an exception raised by the network call is not
\* propagated: the invocation returns an error result (a TransportError) whose
\* message includes the failure's description.
C6_ExceptionsReturnedAsData ==
    \A c \in Calls :
        outcome[c].kind = "exception" =>
            /\ Returned(c)
            /\ IsTransportError(result[c])
            /\ Includes(result[c].message, outcome[c].e)

C6_Witness ==
    \E c \in Calls, d \in Calls :
        /\ IsContact(c) /\ outcome[c].kind = "exception" /\ Returned(c)
        /\ IsSimple(d) /\ outcome[d].kind = "exception" /\ Returned(d)
        /\ IsTransportError(result[c]) /\ IsTransportError(result[d])

\* C7: the POSTs the transport has recorded are one for each invocation whose
\* preconditions all passed and none for any other, whatever the outcome (no
\* retry after a non-2xx status or an exception) and also when two invocations
\* have identical input (no deduplication).
C7_OnePostPerPassingInvocation ==
    /\ \A c \in Calls :
           Cardinality(PostsOf(c)) =
               IF pc[c] # "idle" /\ ~PreconditionFails(c) THEN 1 ELSE 0
    /\ Len(posts) =
           Cardinality({c \in Calls : pc[c] # "idle" /\ ~PreconditionFails(c)})

C7_Witness ==
    \E c \in Calls, d \in Calls :
        /\ c # d
        /\ Returned(c) /\ Returned(d)
        /\ op[c] = op[d] /\ args[c] = args[d]
        /\ outcome[c].kind = "response" /\ outcome[c].resp.status_code = 500
        /\ outcome[d].kind = "exception"
        /\ Len(posts) = 2
        /\ posts[1].request = posts[2].request

\* C8: send_simple_email_to_user checks the credential first and the recipient
\* address second: no credential gives the ConfigurationError whatever the
\* recipient; with a credential a recipient the validator rejects gives a
\* ValidationError and no request; a valid recipient gives one request
\* addressed to exactly that recipient, and Success when the transport
\* answers with a 2xx status such as 202.
C8_NotificationPreconditions ==
    \A c \in Calls :
        (pc[c] # "idle" /\ IsSimple(c)) =>
            LET recipient == args[c].recipient_email IN
            /\ ~CredentialPresent =>
                   Returned(c) /\ IsConfigurationError(result[c]) /\ PostsOf(c) = {}
            /\ (CredentialPresent /\ ~Accepted(recipient)) =>
                   Returned(c) /\ IsInvalidAddressError(result[c]) /\ PostsOf(c) = {}
            /\ (CredentialPresent /\ Accepted(recipient)) =>
                   /\ Cardinality(PostsOf(c)) = 1
                   /\ \A i \in PostsOf(c) : posts[i].request.json.to = <<recipient>>
                   /\ (Returned(c) /\ outcome[c].kind = "response"
                           /\ outcome[c].resp.status_code = 202) =>
                          IsSuccess(result[c])

C8_Witness ==
    \E c \in Calls, d \in Calls :
        /\ IsSimple(c) /\ Returned(c) /\ CredentialPresent
        /\ args[c].recipient_email = <<"u", "@", "e", "x", ".", "c", "o">>
        /\ outcome[c].kind = "response" /\ outcome[c].resp.status_code = 202
        /\ IsSuccess(result[c])
        /\ \E i \in PostsOf(c) :
               posts[i].request.json.to = <<args[c].recipient_email>>
        /\ IsSimple(d) /\ Returned(d)
        /\ args[d].recipient_email = <<"b", "a", "d">>
        /\ IsValidationError(result[d])
        /\ PostsOf(d) = {}

(***************************************************************************)
(* Claims about _is_valid_email (specification ValidatorSpec).             *)
(***************************************************************************)
\* s is local@domain with local and domain non-empty
IsLocalAtDomain(s) == \E i \in 2..(Len(s) - 1) : s[i] = "@"

\* s is local@domain with local and domain non-empty and made of characters
\* that are neither white space nor one of ( ) < > @ , : ; " [ ]
IsPlainLocalAtDomain(s) ==
    \E i \in 2..(Len(s) - 1) :
        /\ s[i] = "@"
        /\ \A j \in (1..Len(s)) \ {i} : s[j] \notin (atomends \ {"."})

\* C9 as claimed: _is_valid_email returns true for every string of the form
\* local@domain with non-empty local and domain.
C9_LocalAtDomainIsValid ==
    (vpc = "returned" /\ IsLocalAtDomain(candidate)) => verdict = TRUE

\* C9: _is_valid_email returns true for every string local@domain whose local
\* and domain are non-empty and contain no white space and none of the address
\* specials ( ) < > @ , : ; " [ ]
C9_PlainLocalAtDomainIsValid ==
    (vpc = "returned" /\ IsPlainLocalAtDomain(candidate)) => verdict = TRUE

C9_Witness ==
    /\ vpc = "returned"
    /\ candidate = <<"a", "@", "a", ".">>
    /\ IsPlainLocalAtDomain(candidate)
    /\ verdict = TRUE

\* C10: _is_valid_email returns false for every string that contains no "@",
\* the empty string included.
C10_NoAtIsInvalid ==
    (vpc = "returned" /\ ~Contains(candidate, "@")) => verdict = FALSE

C10_Witness ==
    /\ vpc = "returned"
    /\ candidate = <<"a", ".", "a">>
    /\ ~Contains(candidate, "@")
    /\ verdict = FALSE

(***************************************************************************)
(* Further claims about the two tools (specification Spec).                *)
(***************************************************************************)

\* C11: every value either tool returns, on every path (configuration error,
\* validation error, success, provider rejection, caught exception), is a
\* mapping with a status field that is one of success, error, warning and a
\* message field.
C11_ResultHasStatusAndMessage ==
    \A c \in Calls :
        Returned(c) =>
            /\ {"status", "message"} \subseteq DOMAIN result[c]
            /\ result[c].status \in {"success", "error", "warning"}
            /\ Len(result[c].message) > 0

C11_Witness ==
    \E c \in Calls, d \in Calls :
        /\ Returned(c) /\ IsContact(c) /\ outcome[c].kind = "response"
        /\ outcome[c].resp.status_code = 500
        /\ result[c].status = "error"
        /\ Returned(d) /\ IsSimple(d) /\ outcome[d].kind = "response"
        /\ result[d].status = "success"
        /\ "message" \in DOMAIN result[c] /\ "message" \in DOMAIN result[d]

\* C13: for every response the transport returns, the result's response is
\* the parsed body when the body parses as structured data (a body {"id": "abc"}
\* gives response.id = "abc") and the raw response text otherwise; whether the
\* body parses does not change the classification, which the status code alone
\* decides (a 2xx response with an unparseable body is still Success).
C13_ProviderResponseParsedOrRaw ==
    \A c \in Calls :
        (Returned(c) /\ outcome[c].kind = "response") =>
            LET resp == outcome[c].resp IN
            /\ "response" \in DOMAIN result[c]
            /\ IF resp.json.raises
               THEN result[c].response = resp.text
               ELSE /\ result[c].response = resp.json.value
                    /\ result[c].response.id = <<"abc">>
            /\ IsSuccess(result[c]) <=>
                   (200 <= resp.status_code /\ resp.status_code < 300)
            /\ ~IsSuccess(result[c]) => IsStatusError(result[c])

C13_Witness ==
    \E c \in Calls, d \in Calls :
        /\ Returned(c) /\ IsContact(c) /\ outcome[c].kind = "response"
        /\ outcome[c].resp.status_code = 200
        /\ ~outcome[c].resp.json.raises
        /\ IsSuccess(result[c])
        /\ result[c].response.id = <<"abc">>
        /\ Returned(d) /\ outcome[d].kind = "response"
        /\ outcome[d].resp.status_code = 200
        /\ outcome[d].resp.json.raises
        /\ IsSuccess(result[d])
        /\ result[d].response = outcome[d].resp.text

\* what each tool returns before any POST, for every credential and arguments
\* (NoCall where the checks pass and the tool goes on to POST)
ContactEarlyResults ==
    [k \in Credentials, a \in ContactArgs |->
        IF contact_precheck(k, a) = "post" THEN NoCall
        ELSE contact_early_result(k, a)]
SimpleEarlyResults ==
    [k \in Credentials, a \in SimpleArgs |->
        IF simple_precheck(k, a.recipient_email) = "post" THEN NoCall
        ELSE simple_early_result(k, a.recipient_email)]

\* what invocation c returns when it runs alone with its arguments, the
\* credential and the transport's answer
AloneResult(c) ==
    IF outcome[c].kind = "exception" THEN ExceptionResult(outcome[c].e)
    ELSE IF IsContact(c)
    THEN IF outcome[c].kind = "response"
         THEN contact_response_result(outcome[c].resp)
         ELSE ContactEarlyResults[credential, args[c]]
    ELSE IF outcome[c].kind = "response"
         THEN simple_response_result(outcome[c].resp, args[c].recipient_email)
         ELSE SimpleEarlyResults[credential, args[c]]

\* the requests invocation c sends when it runs alone
AloneRequests(c) ==
    IF PreconditionFails(c) THEN {}
    ELSE IF IsContact(c)
    THEN {PostRequest(credential, contact_payload(args[c]))}
    ELSE {PostRequest(credential, simple_payload(args[c].recipient_email))}

RanAsIfAlone(c) ==
    /\ Cardinality(PostsOf(c)) = Cardinality(AloneRequests(c))
    /\ \A i \in PostsOf(c) : posts[i].request \in AloneRequests(c)
    /\ Returned(c) => result[c] = AloneResult(c)

\* a step of one invocation leaves every other invocation and every request
\* already recorded as they were
NoInterference ==
    \A c \in Calls :
        pc'[c] # pc[c] =>
            /\ \A d \in Calls \ {c} :
                   /\ pc'[d] = pc[d] /\ op'[d] = op[d] /\ args'[d] = args[d]
                   /\ api_key'[d] = api_key[d]
                   /\ outcome'[d] = outcome[d] /\ result'[d] = result[d]
            /\ Len(posts') >= Len(posts)
            /\ \A i \in 1..Len(posts) : posts'[i] = posts[i]

\* C12: invocations share no mutable state: under any interleaving, every step
\* of an invocation leaves the others untouched, each invocation's requests and
\* result are those it produces alone with the same arguments, credential and
\* transport answer, and no invocation changes the credential.
C12_InvocationsIndependent ==
    [][/\ credential' = credential
       /\ NoInterference
       /\ \A c \in Calls : pc'[c] # "idle" => RanAsIfAlone(c)']_vars

\* two invocations overlap: c posted first and is still blocked in its POST
\* when d, which posted second, has already returned
C12_Witness ==
    \E c \in Calls, d \in Calls :
        /\ c # d
        /\ Len(posts) = 2 /\ posts[1].call = c /\ posts[2].call = d
        /\ pc[c] = "posting"
        /\ Returned(d) /\ outcome[d].kind = "response"
        /\ RanAsIfAlone(c) /\ RanAsIfAlone(d)

=============================================================================
